---- MODULE Spec2Model ----
(***************************************************************************)
(* Ingestion pipeline of AI-SYSTEMS-STARTER: the queue consumer            *)
(* (IngestionWorker.run), the pipeline orchestrator                        *)
(* (IngestionWorker.process_job), the document status store, the Redis     *)
(* job queue and the Redis pub/sub progress channel.                       *)
(***************************************************************************)
EXTENDS Integers, Sequences, FiniteSets, TLC

\* ------------------------------------------------------------------ bounds
\* Number of queue entries that are ever pushed (uploads and outside pushes).
MaxEnqueues == 3
\* Number of blank-line separated pieces of a text given to the segmenter.
MaxParas == 3
\* Number of tokens of a text given to the classifier.
MaxTokens == 4
MaxRaw == 3
MaxTextLength == 12

\* ------------------------------------------------------------ fixed sets
Workers == {"w1", "w2"}
Docs == {"d1", "d2", "d3"}
Subscribers == {"s1", "s2"}
EntryIds == 1..MaxEnqueues

NoJob == [id |-> 0, doc |-> "-", valid |-> FALSE]
NoErr == <<>>
\* Python None in a nullable text column: a value no message equals.
None == <<"None">>

\* ----------------------------------- IngestionWorker._detect_legal_document
\* A filename is a string with its lower() and the keywords that occur in
\* the lower-cased string as substrings ("island.pdf" holds "sla").
legal_filename_keywords ==
    {"contract", "agreement", "clause", "terms", "conditions", "legal",
     "policy", "nda", "mou", "sla", "msa"}
Filename(written, lower, holds) ==
    [written |-> written, lower |-> lower, holds |-> holds]
Filenames ==
    {Filename("Service_Agreement.pdf", "service_agreement.pdf", {"agreement"}),
     Filename("Island.pdf", "island.pdf", {"sla"}),
     Filename("report.pdf", "report.pdf", {})}

\* A text is a sequence of tokens. A token is a word or short phrase with
\* the whitespace after it: the words as written, the length in characters,
\* and the terms of the vocabulary that occur in its lower() as substrings.
\* Filler is prose without any match, as long as the sample that is read.
SampleLength == 5000
legal_terms ==
    {"whereas", "hereinafter", "party", "parties", "terminate", "termination",
     "indemnify", "liability", "agreement", "contract", "executed"}
Token(kind, word, len, holds) ==
    [kind |-> kind, word |-> word, len |-> len, holds |-> holds]
TokenPool ==
    {Token("number", "3.2", 4, {}),
     Token("heading", "Article", 10, {}),
     Token("heading", "section", 10, {}),
     Token("words", "Party", 6, {"party"}),
     Token("words", "WHEREAS the Party", 18, {"whereas", "party"}),
     Token("words", "liability", 10, {"liability"}),
     Token("words", "Contractor executed", 20, {"contract", "executed"}),
     Token("filler", "Lorem", SampleLength, {})}
ClassifierTexts == UNION {[1..n -> TokenPool] : n \in 0..MaxTokens}

\* sample_text = text[:5000]: the tokens that lie in the first characters.
RECURSIVE Sample(_, _, _)
Sample(text, i, offset) ==
    IF i > Len(text) \/ offset + text[i].len > SampleLength THEN <<>>
    ELSE <<text[i]>> \o Sample(text, i + 1, offset + text[i].len)

\* len(re.findall(pattern, sample_text)) for the two patterns: the clause
\* pattern is digits.digits followed by whitespace; the section pattern is
\* one of six spellings followed by whitespace and a digit.
SectionSpellings ==
    {"Article", "Section", "ARTICLE", "SECTION", "Clause", "CLAUSE"}
clause_count(sample) ==
    Len(SelectSeq(sample, LAMBDA t : t.kind = "number"))
section_count(sample) ==
    Len(SelectSeq(sample, LAMBDA t : t.kind = "heading" /\
                                     t.word \in SectionSpellings))
legal_term_count_occurrences(sample) ==
    Cardinality({<<i, term>> \in (1..Len(sample)) \X legal_terms :
                   term \in sample[i].holds})
\* sum(1 for term in legal_terms if term in text_lower)
legal_term_count(sample) ==
    Cardinality({term \in legal_terms :
                   \E i \in 1..Len(sample) : term \in sample[i].holds})

\* _detect_legal_document(text, filename)
detect_legal_document(text, filename) ==
    LET sample == Sample(text, 1, 0) IN
    IF filename.holds \cap legal_filename_keywords # {} THEN TRUE
    ELSE IF clause_count(sample) >= 3 \/ section_count(sample) >= 2 THEN TRUE
    ELSE IF legal_term_count(sample) >= 5 THEN TRUE
    ELSE FALSE

\* ------------------------------------------------ ClauseChunkingService
\* The default sizes of chunk_legal_document and chunk_with_metadata.
DefaultMinChunkSize == 100
DefaultMaxChunkSize == 1500
\* A text is the sequence of its blank-line separated pieces. A piece is
\* described by what the patterns of the segmenter see of it: which pattern
\* its first line matches (kind), the number and title the pattern captures,
\* and the lengths of its sentences (the parts re.split cuts at a sentence
\* end followed by whitespace and a capital). A piece without sentences is
\* whitespace only.
SumSeq(q) == IF q = <<>> THEN 0 ELSE LET RECURSIVE S(_)
                                         S(i) == IF i = 0 THEN 0 ELSE q[i] + S(i - 1)
                                     IN  S(Len(q))
\* len() of a text of these sentences, one whitespace character between two.
TextLen(sents) == IF sents = <<>> THEN 0 ELSE SumSeq(sents) + Len(sents) - 1

\* self.current_section_number / current_section_title as __init__ sets them.
PreambleContext == [section_number |-> "0", section_title |-> <<"Preamble">>]

\* paragraphs = [p.strip() for p in text.split('\n\n') if p.strip()]
Paragraphs(text) == SelectSeq(text, LAMBDA p : p.sents # <<>>)

\* ClauseChunk(...) as the loop over the paragraphs builds it; paras is a
\* ghost field: the paragraphs (by position) the text comes from.
ClauseChunk(para, idx, clause_number, ctx, chunk_type, n, level) ==
    [len |-> TextLen(para.sents), sents |-> para.sents, paras |-> <<idx>>,
     clause_number |-> clause_number,
     section_number |-> ctx.section_number,
     section_title |-> ctx.section_title,
     chunk_type |-> chunk_type, chunk_index |-> n, hierarchy_level |-> level]

\* The section header branch: the context becomes the header's number and
\* its title (or "<type> <number>" when the title is empty).
HeaderContext(para) ==
    [section_number |-> para.num[1],
     section_title |-> IF para.title # <<>> THEN para.title
                       ELSE <<para.word, para.num[1]>>]

\* One turn of "for para in paragraphs": the patterns in order, first match
\* wins. st is [ctx, chunks]; idx the position of the paragraph.
EmitParagraph_default(st, para, idx, min_chunk_size) ==
    LET n == Len(st.chunks)
        c == PreambleContext
    IN  IF para.kind = "header"
        THEN [ctx |-> HeaderContext(para),
              chunks |-> Append(st.chunks,
                 ClauseChunk(para, idx, <<para.num[1]>>, HeaderContext(para),
                             "section_header", n, 0))]
        ELSE IF para.kind = "clause"
        THEN [ctx |-> c,
              chunks |-> Append(st.chunks,
                 ClauseChunk(para, idx, para.num, c,
                             IF Len(para.num) - 1 >= 2 THEN "sub_clause"
                             ELSE "clause",
                             n, Len(para.num) - 1))]
        ELSE IF para.kind = "lettered"
        THEN [ctx |-> c,
              chunks |-> Append(st.chunks,
                 ClauseChunk(para, idx, <<c.section_number, para.num[1]>>, c,
                             "sub_clause", n, 2))]
        ELSE IF TextLen(para.sents) > min_chunk_size \/ n > 0
        THEN [ctx |-> c,
              chunks |-> Append(st.chunks,
                 ClauseChunk(para, idx,
                             <<c.section_number, "p" \o ToString(n)>>, c,
                             "paragraph", n, 1))]
        ELSE st
EmitParagraph(st, para, idx, min_chunk_size) ==
    LET n == Len(st.chunks)
        c == st.ctx
    IN  IF para.kind = "header"
        THEN [ctx |-> HeaderContext(para),
              chunks |-> Append(st.chunks,
                 ClauseChunk(para, idx, <<para.num[1]>>, HeaderContext(para),
                             "section_header", n, 0))]
        ELSE IF para.kind = "clause"
        THEN [ctx |-> c,
              chunks |-> Append(st.chunks,
                 ClauseChunk(para, idx, para.num, c,
                             IF Len(para.num) - 1 >= 2 THEN "sub_clause"
                             ELSE "clause",
                             n, Len(para.num) - 1))]
        ELSE IF para.kind = "lettered"
        THEN [ctx |-> c,
              chunks |-> Append(st.chunks,
                 ClauseChunk(para, idx, <<c.section_number, para.num[1]>>, c,
                             "sub_clause", n, 2))]
        ELSE IF TextLen(para.sents) > min_chunk_size \/ n > 0
        THEN [ctx |-> c,
              chunks |-> Append(st.chunks,
                 ClauseChunk(para, idx,
                             <<c.section_number, "p" \o ToString(n)>>, c,
                             "paragraph", n, 1))]
        ELSE st

\* The loop over the paragraphs, from the context the instance holds.
RECURSIVE EmitAll(_, _, _, _)
EmitAll(st, paras, i, min_chunk_size) ==
    IF i > Len(paras) THEN st
    ELSE EmitAll(EmitParagraph(st, paras[i], i, min_chunk_size), paras, i + 1,
                 min_chunk_size)

\* _split_large_chunk: a sub-chunk made of the sentences cur, the k-th one.
SubChunk_sameLevel(chunk, cur, k) ==
    [chunk EXCEPT !.len = TextLen(cur), !.sents = cur,
                  !.clause_number = Append(@, ToString(k))]
SubChunk(chunk, cur, k) ==
    [chunk EXCEPT !.len = TextLen(cur), !.sents = cur,
                  !.clause_number = Append(@, ToString(k)),
                  !.hierarchy_level = @ + 1]

\* The loop without the flush of the remaining text.
RECURSIVE SplitLoop_dropRest(_, _, _, _, _)
SplitLoop_dropRest(chunk, i, cur, sub_chunks, max_size) ==
    LET flushed == IF cur # <<>>
                   THEN Append(sub_chunks,
                               SubChunk(chunk, cur, Len(sub_chunks) + 1))
                   ELSE sub_chunks
    IN  IF i > Len(chunk.sents) THEN sub_chunks
        ELSE IF SumSeq(cur) + Len(cur) + chunk.sents[i] < max_size
        THEN SplitLoop_dropRest(chunk, i + 1, Append(cur, chunk.sents[i]),
                                sub_chunks, max_size)
        ELSE SplitLoop_dropRest(chunk, i + 1, <<chunk.sents[i]>>, flushed,
                                max_size)
\* "for sentence in sentences": cur holds the sentences of current_text,
\* each followed by one space, so len(current_text) = SumSeq(cur) + Len(cur).
RECURSIVE SplitLoop(_, _, _, _, _)
SplitLoop(chunk, i, cur, sub_chunks, max_size) ==
    LET flushed == IF cur # <<>>
                   THEN Append(sub_chunks,
                               SubChunk(chunk, cur, Len(sub_chunks) + 1))
                   ELSE sub_chunks
    IN  IF i > Len(chunk.sents) THEN flushed
        ELSE IF SumSeq(cur) + Len(cur) + chunk.sents[i] < max_size
        THEN SplitLoop(chunk, i + 1, Append(cur, chunk.sents[i]), sub_chunks,
                       max_size)
        ELSE SplitLoop(chunk, i + 1, <<chunk.sents[i]>>, flushed, max_size)

split_large_chunk(chunk, max_size) ==
    LET sub_chunks == SplitLoop(chunk, 1, <<>>, <<>>, max_size)
    IN  IF sub_chunks # <<>> THEN sub_chunks ELSE <<chunk>>

\* can_combine of _optimize_chunk_sizes.
can_combine_oversize(current, next_chunk, max_size) ==
    /\ current.section_number = next_chunk.section_number
    /\ current.len + next_chunk.len > max_size
    /\ current.chunk_type # "section_header"
    /\ next_chunk.chunk_type # "section_header"
can_combine_anyType(current, next_chunk, max_size) ==
    /\ current.section_number = next_chunk.section_number
    /\ current.len + next_chunk.len < max_size
can_combine(current, next_chunk, max_size) ==
    /\ current.section_number = next_chunk.section_number
    /\ current.len + next_chunk.len < max_size
    /\ current.chunk_type # "section_header"
    /\ next_chunk.chunk_type # "section_header"

\* combined = ClauseChunk(text=f"{current.text}\n\n{next_chunk.text}", ...)
Combined_dropNext(current, next_chunk, n) ==
    [len |-> current.len,
     sents |-> current.sents,
     paras |-> current.paras,
     clause_number |-> current.clause_number,
     section_number |-> current.section_number,
     section_title |-> current.section_title,
     chunk_type |-> "combined", chunk_index |-> n,
     hierarchy_level |-> IF current.hierarchy_level <= next_chunk.hierarchy_level
                         THEN current.hierarchy_level
                         ELSE next_chunk.hierarchy_level]
Combined(current, next_chunk, n) ==
    [len |-> current.len + 2 + next_chunk.len,
     sents |-> current.sents \o next_chunk.sents,
     paras |-> current.paras \o next_chunk.paras,
     clause_number |-> current.clause_number,
     section_number |-> current.section_number,
     section_title |-> current.section_title,
     chunk_type |-> "combined", chunk_index |-> n,
     hierarchy_level |-> IF current.hierarchy_level <= next_chunk.hierarchy_level
                         THEN current.hierarchy_level
                         ELSE next_chunk.hierarchy_level]

\* The while loop of _optimize_chunk_sizes (i counts from 1 here).
RECURSIVE OptimizeLoop(_, _, _, _, _)
OptimizeLoop(chunks, i, optimized, min_size, max_size) ==
    IF i > Len(chunks) THEN optimized
    ELSE IF chunks[i].len > max_size
    THEN OptimizeLoop(chunks, i + 1,
                      optimized \o split_large_chunk(chunks[i], max_size),
                      min_size, max_size)
    ELSE IF /\ chunks[i].len < min_size
            /\ i + 1 <= Len(chunks)
            /\ can_combine(chunks[i], chunks[i + 1], max_size)
    THEN OptimizeLoop(chunks, i + 2,
                      Append(optimized,
                             Combined(chunks[i], chunks[i + 1], Len(optimized))),
                      min_size, max_size)
    ELSE OptimizeLoop(chunks, i + 1, Append(optimized, chunks[i]),
                      min_size, max_size)

\* _optimize_chunk_sizes: the loop, then the reindexing from 0.
optimize_chunk_sizes(chunks, min_size, max_size) ==
    LET optimized == OptimizeLoop(chunks, 1, <<>>, min_size, max_size)
    IN  [idx \in 1..Len(optimized) |->
           [optimized[idx] EXCEPT !.chunk_index = idx - 1]]

\* chunk_legal_document on an instance whose context is ctx: the chunks it
\* returns and the context it leaves in the instance.
chunk_legal_document(ctx, text, min_chunk_size, max_chunk_size) ==
    LET st == EmitAll([ctx |-> ctx, chunks |-> <<>>], Paragraphs(text), 1,
                      min_chunk_size)
    IN  [ctx |-> st.ctx,
         emitted |-> st.chunks,
         chunks |-> optimize_chunk_sizes(st.chunks, min_chunk_size,
                                         max_chunk_size)]

\* Document content, fixed per document id: what the extractor finds.
\* d1 is the two-page contract, d2 a one-page scan without a text layer.
PageCount(d) == IF d = "d1" THEN 2 ELSE 1
RawText(d) == IF d = "d2" THEN "blank" ELSE "text"

\* ------------------------------------------------------- segmenter inputs
\* The paragraphs the texts of the segmenter runs are made of (lengths in
\* characters): two section headers, one without a title, the two short
\* clauses of the contract, a sub-clause of two long sentences, a clause of
\* two short sentences, a paragraph
\* that is one long sentence, a short paragraph, a long lettered sub-clause
\* and a whitespace-only piece.
Para(kind, word, num, title, sents) ==
    [kind |-> kind, word |-> word, num |-> num, title |-> title, sents |-> sents]
ArticleOne == Para("header", "Article", <<"1">>, <<"Definitions">>, <<21>>)
SectionTwo == Para("header", "Section", <<"2">>, <<>>, <<9>>)
ClauseTerm == Para("clause", "", <<"1", "1">>, <<>>, <<8>>)
ClausePayment == Para("clause", "", <<"1", "2">>, <<>>, <<11>>)
ParaPool ==
    {ArticleOne, SectionTwo, ClauseTerm, ClausePayment,
     Para("clause", "", <<"2", "1", "1">>, <<>>, <<900, 700>>),
     Para("clause", "", <<"3", "1">>, <<>>, <<20, 15>>),
     Para("plain", "", <<>>, <<>>, <<1600>>),
     Para("plain", "", <<>>, <<>>, <<49>>),
     Para("lettered", "", <<"a">>, <<>>, <<1450>>),
     Para("plain", "", <<>>, <<>>, <<>>)}
Texts == UNION {[1..n -> ParaPool] : n \in 0..MaxParas}
\* min_chunk_size / max_chunk_size: the defaults and a small pair.
Sizes == {[min |-> DefaultMinChunkSize, max |-> DefaultMaxChunkSize],
          [min |-> 10, max |-> 20]}
NoCall == [text |-> <<>>, min |-> 0, max |-> 0]

\* The contract d1 holds: the file name it was uploaded under, its text as
\* the segmenter sees it ("Article 1 Definitions", "1.1 Term",
\* "1.2 Payment") and as the classifier sees it. d3 is a one-page cover
\* note, uploaded as Terms.pdf, whose text is one short paragraph.
DocFilename(d) ==
    IF d = "d1"
    THEN Filename("Service_Agreement.pdf", "service_agreement.pdf", {"agreement"})
    ELSE IF d = "d3" THEN Filename("Terms.pdf", "terms.pdf", {"terms"})
    ELSE Filename("report.pdf", "report.pdf", {})
DocParagraphs(d) ==
    IF d = "d1" THEN <<ArticleOne, ClauseTerm, ClausePayment>>
    ELSE IF d = "d3" THEN <<Para("plain", "", <<>>, <<>>, <<49>>)>>
    ELSE <<>>
DocTokens(d) ==
    IF d = "d1"
    THEN <<Token("heading", "Article", 10, {}),
           Token("words", "Definitions", 13, {}),
           Token("number", "1.1", 4, {}), Token("words", "Term", 6, {}),
           Token("number", "1.2", 4, {}), Token("words", "Payment", 7, {})>>
    ELSE IF d = "d3" THEN <<Token("words", "Please find enclosed", 49, {})>>
    ELSE <<>>
\* chunks = await ...chunk_with_metadata(text=text, ...) for a text the
\* classifier takes for a legal document: the clause-aware segmenter with
\* its default sizes, one dict per chunk.
LegalChunks(d) ==
    chunk_legal_document(PreambleContext, DocParagraphs(d),
                         DefaultMinChunkSize, DefaultMaxChunkSize).chunks
\* chunk_count = len(chunks)
ChunkCounts ==
    [d \in Docs |->
       IF detect_legal_document(DocTokens(d), DocFilename(d))
       THEN Len(LegalChunks(d)) ELSE 1]
ChunkCount(d) == ChunkCounts[d]
\* EmbeddingService.embed_chunks: one vector per text, in order.
embed_chunks(texts) == [i \in 1..Len(texts) |-> "vector"]
NoClassification == [text |-> <<>>, filename |-> Filename("", "", {})]

\* -------------------------------------------------------- ChunkingService
\* The defaults of ChunkingService.__init__.
DefaultChunkSize == 500
DefaultChunkOverlap == 50
ChunkingService(chunk_size, chunk_overlap) ==
    [chunk_size |-> chunk_size, chunk_overlap |-> chunk_overlap]
\* The instances: the default one, a small one, and one whose overlap is
\* the chunk size (the splitter rejects only an overlap above the size).
Services ==
    {ChunkingService(DefaultChunkSize, DefaultChunkOverlap),
     ChunkingService(8, 2), ChunkingService(5, 5)}
\* raw_chunks = self.splitter.split_text(text): the splitter is a library;
\* what chunk_text uses of its result is the length of every raw chunk. A
\* raw chunk is not empty and not longer than chunk_size; it can be shorter
\* than chunk_overlap (a paragraph "Hi." before one of 499 characters gives
\* raw chunks of 3 and 499 characters with the default instance).
RawLengths == {1, 3, 5, 8, 40, 499, 500}
RawChunks(svc) ==
    UNION {[1..n -> {l \in RawLengths : l <= svc.chunk_size}] : n \in 0..MaxRaw}
TextChunk(len, chunk_index, start_char, end_char) ==
    [len |-> len, chunk_index |-> chunk_index,
     start_char |-> start_char, end_char |-> end_char]
\* "for idx, chunk_text in enumerate(raw_chunks)" (idx counts from 1 here).
RECURSIVE ChunkLoop(_, _, _, _)
ChunkLoop(raw, idx, current_offset, chunk_overlap) ==
    IF idx > Len(raw) THEN <<>>
    ELSE <<TextChunk(raw[idx], idx - 1, current_offset,
                     current_offset + raw[idx])>>
         \o ChunkLoop(raw, idx + 1, current_offset + raw[idx] - chunk_overlap,
                      chunk_overlap)
\* chunk_text: the chunks, or the ZeroDivisionError of the average in the
\* print when the splitter returned no chunk.
chunk_text(svc, raw) ==
    IF raw = <<>> THEN [raised |-> TRUE, chunks |-> <<>>]
    ELSE [raised |-> FALSE,
          chunks |-> ChunkLoop(raw, 1, 0, svc.chunk_overlap)]
\* estimate_chunk_count(text_length)
estimate_chunk_count(svc, text_length) ==
    LET effective_chunk_size == svc.chunk_size - svc.chunk_overlap IN
    IF effective_chunk_size <= 0 THEN text_length
    ELSE LET estimated == (text_length + effective_chunk_size - 1)
                              \div effective_chunk_size
         IN  IF estimated >= 1 THEN estimated ELSE 1
TextLengths == (0..MaxTextLength) \cup {1000}
NoChunkText == [svc |-> ChunkingService(0, 0), raw |-> <<>>]
NoChunks == [raised |-> FALSE, chunks |-> <<>>]
NoEstimate == [svc |-> ChunkingService(0, 0), text_length |-> 0]

VARIABLES
    queue,      \* Redis list queue:ingestion_queue, a sequence of entries
    nextId,     \* ghost: id the next pushed entry gets
    delivered,  \* ghost: entry id -> number of times dequeue returned it
    docs,       \* documents table: doc id -> record (status "none": no row)
    collection, \* vector store: does the target collection exist
    vectors,    \* vector store: doc id -> "none" | "partial" | "all"
    pc,         \* worker -> position in run / process_job
    job,        \* worker -> the job_data it holds
    err,        \* worker -> str(e) of the exception caught by process_job
    runEvents,  \* ghost: worker -> publish_progress calls of the current job
    stagesRun,  \* ghost: worker -> stages started in the current job
    pubFailed,  \* ghost: worker -> did a publish of the current job fail
    inProgress, \* worker -> set of entry ids whose process_job has not ended
    signalled,  \* ghost: worker -> has it been sent the shutdown signal
    subState,   \* subscriber -> "idle" | "connecting" | "subscribed" | "closed"
    subDoc,     \* subscriber -> the document whose channel it listens to
    inbox,      \* subscriber -> messages Redis has pushed, not yet yielded
    received,   \* subscriber -> messages subscribe() has yielded
    subAt,      \* ghost: subscriber -> entry id -> publish calls of that job
                \*        already made when the subscription became active
    segCtx,     \* the segmenter instance: current_section_number / _title
    segPrev,    \* ghost: the context the instance held when the call began
    segIn,      \* the arguments of the chunk_legal_document call under way
    segOut,     \* the chunks that call returned
    segEmitted, \* ghost: the chunks of that call before _optimize_chunk_sizes
    clsIn,      \* the arguments of the _detect_legal_document call under way
    clsOut,     \* what that call returned
    genIn,      \* the ChunkingService and the split of the chunk_text call under way
    genOut,     \* what that call returned or that it raised
    estIn,      \* the ChunkingService and argument of the estimate_chunk_count call
    estOut,     \* what that call returned
    wsPc,       \* connection -> position of its document_progress_websocket call
    wsDoc,      \* connection -> the document_id of its path
    wsSent,     \* connection -> what has been sent to the client
    active_connections  \* manager.active_connections: document_id -> connection

workerVars == <<pc, job, err, runEvents, stagesRun, pubFailed, inProgress,
                signalled>>
storeVars == <<docs, collection, vectors>>
queueVars == <<queue, nextId, delivered>>
subVars == <<subState, subDoc, inbox, received, subAt>>
segVars == <<segCtx, segPrev, segIn, segOut, segEmitted>>
clsVars == <<clsIn, clsOut>>
genVars == <<genIn, genOut, estIn, estOut>>
pureVars == <<segVars, clsVars, genVars>>
wsVars == <<wsPc, wsDoc, wsSent, active_connections>>
pipelineVars == <<queueVars, storeVars, workerVars, subVars, wsVars>>
vars == <<queue, nextId, delivered, docs, collection, vectors, pc, job, err,
          runEvents, stagesRun, pubFailed, inProgress, signalled, subState,
          subDoc,
          inbox, received, subAt, segCtx, segPrev, segIn, segOut, segEmitted,
          clsIn, clsOut, genIn, genOut, estIn, estOut, wsPc, wsDoc, wsSent,
          active_connections>>

\* Document: the columns of the documents table the worker touches.
NoRecord == [status |-> "none", error_message |-> None,
             num_pages |-> 0, num_chunks |-> 0]
NewDocument == [status |-> "queued", error_message |-> None,
                num_pages |-> 0, num_chunks |-> 0]

Init ==
    /\ queue = <<>>
    /\ nextId = 1
    /\ delivered = [e \in EntryIds |-> 0]
    /\ docs = [d \in Docs |-> NoRecord]
    /\ collection = FALSE
    /\ vectors = [d \in Docs |-> "none"]
    /\ pc = [w \in Workers |-> "poll"]
    /\ job = [w \in Workers |-> NoJob]
    /\ err = [w \in Workers |-> NoErr]
    /\ runEvents = [w \in Workers |-> <<>>]
    /\ stagesRun = [w \in Workers |-> <<>>]
    /\ pubFailed = [w \in Workers |-> FALSE]
    /\ inProgress = [w \in Workers |-> {}]
    /\ signalled = [w \in Workers |-> FALSE]
    /\ subState = [s \in Subscribers |-> "idle"]
    /\ subDoc = [s \in Subscribers |-> "-"]
    /\ inbox = [s \in Subscribers |-> <<>>]
    /\ received = [s \in Subscribers |-> <<>>]
    /\ subAt = [s \in Subscribers |-> [e \in EntryIds |-> 0]]
    /\ segCtx = PreambleContext
    /\ segPrev = PreambleContext
    /\ segIn = NoCall
    /\ segOut = <<>>
    /\ segEmitted = <<>>
    /\ clsIn = NoClassification
    /\ clsOut = FALSE
    /\ genIn = NoChunkText
    /\ genOut = NoChunks
    /\ estIn = NoEstimate
    /\ estOut = 0
    /\ wsPc = [c \in Subscribers |-> "idle"]
    /\ wsDoc = [c \in Subscribers |-> "-"]
    /\ wsSent = [c \in Subscribers |-> <<>>]
    /\ active_connections = [d \in Docs |-> "-"]

\* ------------------------------------------------------------ environment
\* The kinds of failure the collaborators can produce. Every action takes the
\* set F of kinds that occur in the scenario at hand.
AllFaults == {"redis", "db", "storage", "pdf", "chunker", "embedder",
              "weaviate", "channel"}
\* The outcomes (TRUE: success) of a call that fails only by a fault of kind k.
Outcomes(F, k) == IF k \in F THEN BOOLEAN ELSE {TRUE}

\* ------------------------------------------------------------- job queue
\* RedisQueue.enqueue: json.dumps + RPUSH; a RedisError is swallowed
\* (the method returns False) and nothing is pushed.
enqueue(q, entry, redisOK) == IF redisOK THEN Append(q, entry) ELSE q

\* BLPOP: atomically removes and returns the head of the list.
blpop_peek(q) == [item |-> Head(q), rest |-> q]
blpop(q) == [item |-> Head(q), rest |-> Tail(q)]

\* RedisQueue.dequeue: BLPOP, then json.loads; a RedisError or a
\* JSONDecodeError is swallowed and None is returned, exactly as on timeout.
dequeue_keep(q, redisOK) ==
    IF ~redisOK \/ q = <<>>
    THEN [job |-> NoJob, rest |-> q]
    ELSE LET r == blpop(q) IN
         IF r.item.valid
         THEN [job |-> r.item, rest |-> r.rest]
         ELSE [job |-> NoJob, rest |-> Append(r.rest, r.item)]
dequeue(q, redisOK) ==
    IF ~redisOK \/ q = <<>>
    THEN [job |-> NoJob, rest |-> q]
    ELSE LET r == blpop(q) IN
         IF r.item.valid
         THEN [job |-> r.item, rest |-> r.rest]
         ELSE [job |-> NoJob, rest |-> r.rest]

\* upload_pdf: a fresh document id; store the file, insert the Document row
\* (status QUEUED), enqueue the job; the result of enqueue is not looked at.
Upload(d, F) ==
    /\ nextId <= MaxEnqueues
    /\ docs[d].status = "none"
    /\ \A i \in 1..Len(queue) : queue[i].doc # d
    /\ \A w \in Workers : job[w].doc # d
    /\ \E redisOK \in Outcomes(F, "redis") :
         /\ queue' = enqueue(queue, [id |-> nextId, doc |-> d, valid |-> TRUE],
                             redisOK)
         /\ nextId' = IF redisOK THEN nextId + 1 ELSE nextId
    /\ docs' = [docs EXCEPT ![d] = NewDocument]
    /\ UNCHANGED <<delivered, collection, vectors, workerVars, subVars>>

\* Something outside the worker pushes a job on the list: an operator who
\* resubmits a document, or a job for a document id that has no row.
OutsidePush(d) ==
    /\ nextId <= MaxEnqueues
    /\ queue' = Append(queue, [id |-> nextId, doc |-> d, valid |-> TRUE])
    /\ nextId' = nextId + 1
    /\ UNCHANGED <<delivered, storeVars, workerVars, subVars>>

\* Something outside pushes a payload that is not valid JSON.
PushGarbage ==
    /\ nextId <= MaxEnqueues
    /\ queue' = Append(queue, [id |-> nextId, doc |-> "-", valid |-> FALSE])
    /\ nextId' = nextId + 1
    /\ UNCHANGED <<delivered, storeVars, workerVars, subVars>>

\* ------------------------------------------------------ IngestionWorker.run
\* The except clauses of the loop: KeyboardInterrupt breaks out of the loop,
\* any other Exception is logged and followed by sleep(5).
RunHandler_break(exc) == "stopped"
RunHandler(exc) == IF exc = "KeyboardInterrupt" THEN "stopped" ELSE "backoff"

\* What run does with the value dequeue returned: process_job is awaited
\* (the job's fields are read, the db session opened), or sleep(1).
RunDispatch(job_data) == IF job_data # NoJob THEN "set_processing" ELSE "sleep1"

\* The ghost logs of a job are dropped when its process_job call is over.
ClearRun(w) ==
    /\ err' = [err EXCEPT ![w] = NoErr]
    /\ runEvents' = [runEvents EXCEPT ![w] = <<>>]
    /\ stagesRun' = [stagesRun EXCEPT ![w] = <<>>]
    /\ pubFailed' = [pubFailed EXCEPT ![w] = FALSE]

\* job_data = await self.redis_queue.dequeue(timeout=5), then the branch on it.
Dequeue(w, F) ==
    /\ pc[w] = "poll"
    /\ \E redisOK \in Outcomes(F, "redis") :
         LET r == dequeue(queue, redisOK) IN
         /\ queue' = r.rest
         /\ job' = [job EXCEPT ![w] = r.job]
         /\ pc' = [pc EXCEPT ![w] = RunDispatch(r.job)]
         /\ delivered' = IF r.job # NoJob
                         THEN [delivered EXCEPT ![r.job.id] = @ + 1]
                         ELSE delivered
         /\ inProgress' = IF r.job # NoJob
                          THEN [inProgress EXCEPT ![w] = @ \cup {r.job.id}]
                          ELSE inProgress
    /\ ClearRun(w)
    /\ UNCHANGED <<nextId, signalled, storeVars, subVars>>

\* asyncio.sleep(1) after an empty poll, asyncio.sleep(5) after an exception;
\* then the loop polls again.
Sleep(w) ==
    /\ pc[w] \in {"sleep1", "backoff"}
    /\ pc' = [pc EXCEPT ![w] = "poll"]
    /\ job' = [job EXCEPT ![w] = NoJob]
    /\ ClearRun(w)
    /\ UNCHANGED <<inProgress, signalled, queueVars, storeVars, subVars>>

\* process_job has returned normally; the loop polls again.
Returned(w) ==
    /\ pc[w] = "returned"
    /\ pc' = [pc EXCEPT ![w] = "poll"]
    /\ job' = [job EXCEPT ![w] = NoJob]
    /\ ClearRun(w)
    /\ UNCHANGED <<inProgress, signalled, queueVars, storeVars, subVars>>

\* The shutdown signal (KeyboardInterrupt) or the death of the process, at
\* any point of the loop or of a job: no except clause of process_job sees it
\* (it is no Exception), the loop ends. job keeps the job that was lost.
Stop(w) ==
    /\ pc[w] # "stopped"
    /\ pc' = [pc EXCEPT ![w] = RunHandler("KeyboardInterrupt")]
    /\ signalled' = [signalled EXCEPT ![w] = TRUE]
    /\ inProgress' = [inProgress EXCEPT ![w] = {}]
    /\ ClearRun(w)
    /\ UNCHANGED <<job, queueVars, storeVars, subVars>>

\* ------------------------------------------------- document status store
\* _update_document_status: select the row; if it exists set the status.
UpdateStatus(rec, status) ==
    IF rec.status # "none" THEN [rec EXCEPT !.status = status] ELSE rec

\* _update_document_completed
UpdateCompleted(rec, num_pages, num_chunks) ==
    IF rec.status # "none"
    THEN [rec EXCEPT !.status = "completed", !.num_pages = num_pages,
                     !.num_chunks = num_chunks]
    ELSE rec

\* _update_document_failed
UpdateFailed_keepStatus(rec, error_message) ==
    IF rec.status # "none"
    THEN [rec EXCEPT !.error_message = error_message]
    ELSE rec
UpdateFailed(rec, error_message) ==
    IF rec.status # "none"
    THEN [rec EXCEPT !.status = "failed", !.error_message = error_message]
    ELSE rec

\* ------------------------------------------------------- error messages
\* str(e) as a sequence of text fragments; concatenation is \o.
DbErrorMsg == <<"database unavailable">>
StorageErrorMsg == <<"S3 operation failed">>
NoTextMsg == <<"PDF contains no extractable text">>
PdfErrorMsg == <<"cannot read PDF">>
PageCountErrorMsg == <<"Failed to read PDF page count: ">> \o PdfErrorMsg
ChunkErrorMsg == <<"chunking failed">>
EmbedErrorMsg == <<"embedding failed">>
InsertErrorMsg == <<"vector store unavailable">>
PublishErrorMsg == <<"publish failed">>
Contains(msg, fragment) == \E i \in 1..Len(msg) : msg[i] = fragment

\* PDFService.extract_text: pypdf, then pdfplumber; text is returned only
\* when it is not blank, every failure is re-raised with a prefix.
extract_text(raw) ==
    IF raw = "text"
    THEN [raised |-> FALSE, text |-> "text", msg |-> NoErr]
    ELSE [raised |-> TRUE, text |-> "",
          msg |-> <<"Failed to extract text from PDF: ">> \o
                  (IF raw = "blank"
                   THEN NoTextMsg \o <<" (might be scanned images)">>
                   ELSE PdfErrorMsg)]

\* ------------------------------------------------------- progress events
\* The (status, progress) of the publish_progress call at each position.
ProgressAt_regress(p) ==
    CASE p = "pub5" -> <<"processing", 5>>
      [] p = "pub15" -> <<"processing", 15>>
      [] p = "pub30" -> <<"processing", 30>>
      [] p = "pub50" -> <<"processing", 10>>
      [] p = "pub70" -> <<"processing", 70>>
      [] p = "pub90" -> <<"processing", 90>>
      [] p = "pub100" -> <<"completed", 100>>
      [] p = "pub_failed" -> <<"failed", 0>>
ProgressAt(p) ==
    CASE p = "pub5" -> <<"processing", 5>>
      [] p = "pub15" -> <<"processing", 15>>
      [] p = "pub30" -> <<"processing", 30>>
      [] p = "pub50" -> <<"processing", 50>>
      [] p = "pub70" -> <<"processing", 70>>
      [] p = "pub90" -> <<"processing", 90>>
      [] p = "pub100" -> <<"completed", 100>>
      [] p = "pub_failed" -> <<"failed", 0>>

\* The statement that follows each publish_progress call in process_job.
AfterPublish_skipChunk(p) ==
    CASE p = "pub5" -> "download"
      [] p = "pub15" -> "extract"
      [] p = "pub30" -> "embed"
      [] p = "pub50" -> "embed"
      [] p = "pub70" -> "ensure"
      [] p = "pub90" -> "set_completed"
      [] p = "pub100" -> "returned"
      [] p = "pub_failed" -> "returned"
AfterPublish(p) ==
    CASE p = "pub5" -> "download"
      [] p = "pub15" -> "extract"
      [] p = "pub30" -> "chunk"
      [] p = "pub50" -> "embed"
      [] p = "pub70" -> "ensure"
      [] p = "pub90" -> "set_completed"
      [] p = "pub100" -> "returned"
      [] p = "pub_failed" -> "returned"

PublishPcs == {"pub5", "pub15", "pub30", "pub50", "pub70", "pub90", "pub100",
               "pub_failed"}

\* RedisPubSub.publish: json.dumps + PUBLISH; a RedisError is printed and 0
\* is returned instead of the number of subscribers.
publish_raises(chanOK, nsubs) ==
    [raised |-> ~chanOK, n |-> IF chanOK THEN nsubs ELSE 0]
publish(chanOK, nsubs) ==
    [raised |-> FALSE, n |-> IF chanOK THEN nsubs ELSE 0]


\* ------------------------------------------- IngestionWorker.process_job
\* A statement of the try block ends: normally (go on at position p) or by
\* raising e, which the except clause catches (error_message = str(e)).
TryStep(w, stage, raised, msg, p) ==
    /\ stagesRun' = [stagesRun EXCEPT ![w] = Append(@, stage)]
    /\ pc' = [pc EXCEPT ![w] = IF raised THEN "set_failed" ELSE p]
    /\ err' = [err EXCEPT ![w] = IF raised THEN msg ELSE @]

\* await self._update_document_status(db, document_id, PROCESSING)
SetProcessing(w, F) ==
    /\ pc[w] = "set_processing"
    /\ \E dbOK \in Outcomes(F, "db") :
         /\ docs' = IF dbOK
                    THEN [docs EXCEPT ![job[w].doc] = UpdateStatus(@, "processing")]
                    ELSE docs
         /\ TryStep(w, "set_processing", ~dbOK, DbErrorMsg, "pub5")
    /\ UNCHANGED <<job, runEvents, pubFailed, inProgress, signalled, collection,
                   vectors, queueVars, subVars>>

\* pdf_bytes = await self.storage.download_file(minio_path)
Download(w, F) ==
    /\ pc[w] = "download"
    /\ \E ok \in Outcomes(F, "storage") :
         TryStep(w, "download", ~ok, StorageErrorMsg, "pub15")
    /\ UNCHANGED <<job, runEvents, pubFailed, inProgress, signalled, storeVars,
                   queueVars, subVars>>

\* extract_text, get_page_count, then the check for blank text.
Extract(w, F) ==
    /\ pc[w] = "extract"
    /\ \E readable \in Outcomes(F, "pdf"), pagesOK \in Outcomes(F, "pdf") :
         LET r == extract_text(IF readable THEN RawText(job[w].doc)
                               ELSE "corrupt")
         IN  IF r.raised
             THEN TryStep(w, "extract", TRUE, r.msg, "pub30")
             ELSE IF ~pagesOK
             THEN TryStep(w, "extract", TRUE, PageCountErrorMsg, "pub30")
             ELSE TryStep(w, "extract", r.text # "text", NoTextMsg, "pub30")
    /\ UNCHANGED <<job, runEvents, pubFailed, inProgress, signalled, storeVars,
                   queueVars, subVars>>

\* _detect_legal_document, then chunk_with_metadata of the chosen segmenter.
Chunk(w, F) ==
    /\ pc[w] = "chunk"
    /\ \E ok \in Outcomes(F, "chunker") :
         TryStep(w, "chunk", ~ok, ChunkErrorMsg, "pub50")
    /\ UNCHANGED <<job, runEvents, pubFailed, inProgress, signalled, storeVars,
                   queueVars, subVars>>

\* embeddings = await self.embedding_service.embed_chunks(chunk_texts)
Embed(w, F) ==
    /\ pc[w] = "embed"
    /\ \E ok \in Outcomes(F, "embedder") :
         TryStep(w, "embed", ~ok, EmbedErrorMsg, "pub70")
    /\ UNCHANGED <<job, runEvents, pubFailed, inProgress, signalled, storeVars,
                   queueVars, subVars>>

\* if not collection_exists(name): create_collection(name, dimension).
\* WeaviateDB.collection_exists returns False on any exception and
\* WeaviateDB.create_collection returns False on any exception: neither raises.
Ensure(w, F) ==
    /\ pc[w] = "ensure"
    /\ \E checkOK \in Outcomes(F, "weaviate"), createOK \in Outcomes(F, "weaviate") :
         collection' = IF collection /\ checkOK THEN collection
                       ELSE collection \/ createOK
    /\ TryStep(w, "ensure", FALSE, NoErr, "insert")
    /\ UNCHANGED <<job, runEvents, pubFailed, inProgress, signalled, docs,
                   vectors, queueVars, subVars>>

\* What the vector store holds of a document after one more insert call.
Stored(before, now) ==
    IF before = "all" \/ now = "all" THEN "all"
    ELSE IF before = "partial" \/ now = "partial" THEN "partial"
    ELSE "none"

\* VectorService.insert_documents -> WeaviateDB.insert_vectors: the failure of
\* one object's insert is printed and skipped; only a failure outside the
\* per-object loop raises. Without the collection no object is inserted.
Insert(w, F) ==
    /\ pc[w] = "insert"
    /\ \E res \in {"all", "partial", "none", "raise"} :
         /\ (~collection) => res \in {"none", "raise"}
         /\ ChunkCount(job[w].doc) = 0 => res \in {"none", "raise"}
         /\ ("weaviate" \notin F) =>
              res = (IF collection /\ ChunkCount(job[w].doc) > 0 THEN "all"
                     ELSE "none")
         /\ vectors' = IF res = "raise" THEN vectors
                       ELSE [vectors EXCEPT ![job[w].doc] = Stored(@, res)]
         /\ TryStep(w, "insert", res = "raise", InsertErrorMsg, "pub90")
    /\ UNCHANGED <<job, runEvents, pubFailed, inProgress, signalled, docs,
                   collection, queueVars, subVars>>

\* await self._update_document_completed(db, document_id, page_count, chunk_count)
SetCompleted(w, F) ==
    /\ pc[w] = "set_completed"
    /\ \E dbOK \in Outcomes(F, "db") :
         /\ docs' = IF dbOK
                    THEN [docs EXCEPT ![job[w].doc] =
                            UpdateCompleted(@, PageCount(job[w].doc),
                                            ChunkCount(job[w].doc))]
                    ELSE docs
         /\ TryStep(w, "set_completed", ~dbOK, DbErrorMsg, "pub100")
    /\ UNCHANGED <<job, runEvents, pubFailed, inProgress, signalled, collection,
                   vectors, queueVars, subVars>>

\* The except clause: await self._update_document_failed(db, id, str(e)).
\* An exception raised here leaves process_job and reaches the loop of run.
SetFailed_retry(w, F) ==
    /\ pc[w] = "set_failed"
    /\ docs' = [docs EXCEPT ![job[w].doc] = UpdateFailed(@, err[w])]
    /\ pc' = [pc EXCEPT ![w] = "pub_failed"]
    /\ queue' = Append(queue, job[w])
    /\ stagesRun' = [stagesRun EXCEPT ![w] = Append(@, "set_failed")]
    /\ UNCHANGED <<job, err, runEvents, pubFailed, signalled, collection,
                   vectors, nextId, delivered, inProgress, subVars>>
SetFailed_swallow(w, F) ==
    /\ pc[w] = "set_failed"
    /\ \E dbOK \in Outcomes(F, "db") :
         docs' = IF dbOK
                 THEN [docs EXCEPT ![job[w].doc] = UpdateFailed(@, err[w])]
                 ELSE docs
    /\ pc' = [pc EXCEPT ![w] = "pub_failed"]
    /\ stagesRun' = [stagesRun EXCEPT ![w] = Append(@, "set_failed")]
    /\ UNCHANGED <<job, err, runEvents, pubFailed, signalled, collection,
                   vectors, inProgress, queueVars, subVars>>
SetFailed(w, F) ==
    /\ pc[w] = "set_failed"
    /\ \E dbOK \in Outcomes(F, "db") :
         /\ docs' = IF dbOK
                    THEN [docs EXCEPT ![job[w].doc] = UpdateFailed(@, err[w])]
                    ELSE docs
         /\ pc' = [pc EXCEPT ![w] = IF dbOK THEN "pub_failed"
                                    ELSE RunHandler("Exception")]
         /\ inProgress' = IF dbOK THEN inProgress
                          ELSE [inProgress EXCEPT ![w] = @ \ {job[w].id}]
    /\ stagesRun' = [stagesRun EXCEPT ![w] = Append(@, "set_failed")]
    /\ UNCHANGED <<job, err, runEvents, pubFailed, signalled, collection,
                   vectors, queueVars, subVars>>

\* The message of one publish_progress call; job and idx are ghost fields:
\* the queue entry the call belongs to and its number within that job.
Message(w, p) ==
    [type |-> "message", status |-> ProgressAt(p)[1],
     progress |-> ProgressAt(p)[2], doc |-> job[w].doc, job |-> job[w].id,
     idx |-> Len(runEvents[w]) + 1]

\* publish_progress: build the update, publish it on the document's channel.
\* Redis hands an accepted message to every connection subscribed to the
\* channel at that moment and to no other.
PublishProgress(w, F) ==
    /\ pc[w] \in PublishPcs
    /\ \E chanOK \in Outcomes(F, "channel") :
         LET d == job[w].doc
             listeners == {s \in Subscribers :
                             subState[s] = "subscribed" /\ subDoc[s] = d}
             r == publish(chanOK, Cardinality(listeners))
             ends == pc[w] \in {"pub100", "pub_failed"}
         IN  /\ inbox' = [s \in Subscribers |->
                            IF chanOK /\ s \in listeners
                            THEN Append(inbox[s], Message(w, pc[w]))
                            ELSE inbox[s]]
             /\ runEvents' = [runEvents EXCEPT ![w] = Append(@, ProgressAt(pc[w]))]
             /\ pubFailed' = [pubFailed EXCEPT ![w] = @ \/ ~chanOK]
             /\ pc' = [pc EXCEPT ![w] =
                         IF ~r.raised THEN AfterPublish(pc[w])
                         ELSE IF pc[w] = "pub_failed" THEN RunHandler("Exception")
                         ELSE "set_failed"]
             /\ err' = [err EXCEPT ![w] =
                          IF r.raised /\ pc[w] # "pub_failed"
                          THEN PublishErrorMsg ELSE @]
             /\ inProgress' = IF (ends /\ ~r.raised) \/
                                 (r.raised /\ pc[w] = "pub_failed")
                              THEN [inProgress EXCEPT ![w] = @ \ {job[w].id}]
                              ELSE inProgress
    /\ UNCHANGED <<job, stagesRun, signalled, storeVars, queueVars, subState,
                   subDoc, received, subAt>>

\* ------------------------------------------------- RedisPubSub.subscribe
\* The number of publish_progress calls of entry e that precede this moment:
\* those made so far if its job is running, all of them if it is over.
CallsSoFar(e) ==
    IF \E w \in Workers : e \in inProgress[w]
    THEN Len(runEvents[CHOOSE w \in Workers : e \in inProgress[w]])
    ELSE IF delivered[e] > 0 THEN Cardinality(PublishPcs) ELSE 0

\* A consumer calls subscribe(channel): a connection of its own and a pubsub
\* object are created; nothing is subscribed yet.
Connect(s, d) ==
    /\ subState[s] = "idle"
    /\ subState' = [subState EXCEPT ![s] = "connecting"]
    /\ subDoc' = [subDoc EXCEPT ![s] = d]
    /\ UNCHANGED <<inbox, received, subAt, queueVars, storeVars, workerVars>>

\* await pubsub.subscribe(channel): from now on Redis pushes the channel's
\* messages into this connection, after its own confirmation of the
\* subscription. On an error the generator raises and cleans up.
Subscribe(s, F) ==
    /\ subState[s] = "connecting"
    /\ \E ok \in Outcomes(F, "channel") :
         /\ subState' = [subState EXCEPT ![s] = IF ok THEN "subscribed" ELSE "closed"]
         /\ inbox' = [inbox EXCEPT ![s] = IF ok THEN <<[type |-> "subscribe"]>>
                                          ELSE <<>>]
    /\ subAt' = [subAt EXCEPT ![s] = [e \in EntryIds |-> CallsSoFar(e)]]
    /\ UNCHANGED <<subDoc, received, queueVars, storeVars, workerVars>>

\* pubsub.listen(): the next raw message of the connection.
listen_again(buf) ==
    [raw |-> Head(buf),
     rest |-> IF Head(buf).type = "message" THEN buf ELSE Tail(buf)]
listen(buf) == [raw |-> Head(buf), rest |-> Tail(buf)]

\* One turn of the async for: a raw message of type "message" is decoded
\* and yielded, any other (the subscribe confirmation) is passed over.
Listen(s) ==
    /\ subState[s] = "subscribed"
    /\ inbox[s] # <<>>
    /\ LET r == listen(inbox[s]) IN
         /\ inbox' = [inbox EXCEPT ![s] = r.rest]
         /\ received' = [received EXCEPT ![s] =
                           IF r.raw.type = "message" THEN Append(@, r.raw)
                           ELSE @]
    /\ UNCHANGED <<subState, subDoc, subAt, queueVars, storeVars, workerVars>>

\* The consumer leaves the loop (break, disconnect): the finally clause
\* unsubscribes and closes the connection; what Redis had pushed is dropped.
Close(s) ==
    /\ subState[s] = "subscribed"
    /\ subState' = [subState EXCEPT ![s] = "closed"]
    /\ inbox' = [inbox EXCEPT ![s] = <<>>]
    /\ UNCHANGED <<subDoc, received, subAt, queueVars, storeVars, workerVars>>

\* ----------------------------------------------------------- specification
WorkerStep(w, F) ==
    \/ Dequeue(w, F) \/ Sleep(w) \/ Returned(w)
    \/ SetProcessing(w, F) \/ Download(w, F) \/ Extract(w, F) \/ Chunk(w, F)
    \/ Embed(w, F) \/ Ensure(w, F) \/ Insert(w, F) \/ SetCompleted(w, F)
    \/ SetFailed(w, F) \/ PublishProgress(w, F)

\* The documents the clients of the runs below upload: the contract and
\* the scan.
Uploads == {"d1", "d2"}

\* One worker, every kind of failure, no subscriber.
Next ==
    /\ UNCHANGED <<pureVars, wsVars>>
    /\ \/ \E d \in Uploads : Upload(d, AllFaults)
       \/ \E d \in Uploads : OutsidePush(d)
       \/ PushGarbage
       \/ WorkerStep("w1", AllFaults)
       \/ Stop("w1")

Spec == Init /\ [][Next]_vars

\* Two workers on the same queue; the status store is the only collaborator
\* that fails.
ConcFaults == {"db"}
NextConc ==
    /\ UNCHANGED <<pureVars, wsVars>>
    /\ \/ \E d \in Uploads : Upload(d, ConcFaults)
       \/ \E d \in Uploads : OutsidePush(d)
       \/ \E w \in Workers : WorkerStep(w, ConcFaults)
       \/ \E w \in Workers : Stop(w)

ConcSpec == Init /\ [][NextConc]_vars

\* One worker and a subscriber of a progress channel; every document is
\* uploaded once.
SubFaults == {"db", "storage", "channel"}
Listeners == {"s1"}
NextSub ==
    /\ UNCHANGED <<pureVars, wsVars>>
    /\ \/ \E d \in Uploads : Upload(d, SubFaults)
       \/ WorkerStep("w1", SubFaults)
       \/ Stop("w1")
       \/ \E s \in Listeners, d \in Uploads : Connect(s, d)
       \/ \E s \in Listeners : Subscribe(s, SubFaults)
       \/ \E s \in Listeners : Listen(s)
       \/ \E s \in Listeners : Close(s)

SubSpec == Init /\ [][NextSub]_vars

\* One worker whose every step is eventually taken: each awaited call of the
\* loop and of process_job returns or raises.
LiveFaults == {"redis", "db", "storage"}
NextLive ==
    /\ UNCHANGED <<pureVars, wsVars>>
    /\ \/ \E d \in Uploads : Upload(d, LiveFaults)
       \/ \E d \in Uploads : OutsidePush(d)
       \/ PushGarbage
       \/ WorkerStep("w1", LiveFaults)
       \/ Stop("w1")

LiveSpec ==
    /\ Init /\ [][NextLive]_vars
    /\ WF_vars(WorkerStep("w1", LiveFaults) /\ UNCHANGED <<pureVars, wsVars>>)

\* One worker, every kind of failure; the clients upload the contract and
\* the cover note.
Notes == {"d1", "d3"}
NextNote ==
    /\ UNCHANGED <<pureVars, wsVars>>
    /\ \/ \E d \in Notes : Upload(d, AllFaults)
       \/ \E d \in Notes : OutsidePush(d)
       \/ PushGarbage
       \/ WorkerStep("w1", AllFaults)
       \/ Stop("w1")

NoteSpec == Init /\ [][NextNote]_vars

\* --------------------------------------------- document_progress_websocket
\* One call of the endpoint per connection; the connection's generator of
\* pubsub.subscribe is the subscriber of the same name.
ConnectedMessage(d) == [type |-> "connected", doc |-> d]
ErrorMessage == [type |-> "error"]
TerminalStatuses == {"completed", "failed"}

\* await manager.connect(document_id, websocket): accept, then
\* self.active_connections[document_id] = websocket.
WsConnect(c, d) ==
    /\ wsPc[c] = "idle"
    /\ wsDoc' = [wsDoc EXCEPT ![c] = d]
    /\ active_connections' = [active_connections EXCEPT ![d] = c]
    /\ wsPc' = [wsPc EXCEPT ![c] = "hello"]
    /\ UNCHANGED <<wsSent, queueVars, storeVars, workerVars, subVars>>

\* await websocket.send_json({"type": "connected", ...}), then the async for
\* calls pubsub.subscribe(channel_name); a client that is gone makes
\* send_json raise, which ends the try block.
WsHello(c) ==
    /\ wsPc[c] = "hello"
    /\ \/ /\ Connect(c, wsDoc[c])
          /\ wsSent' = [wsSent EXCEPT ![c] = Append(@, ConnectedMessage(wsDoc[c]))]
          /\ wsPc' = [wsPc EXCEPT ![c] = "next"]
       \/ /\ wsPc' = [wsPc EXCEPT ![c] = "finally"]
          /\ UNCHANGED <<wsSent, queueVars, storeVars, workerVars, subVars>>
    /\ UNCHANGED <<wsDoc, active_connections>>

\* The first step of the generator: await pubsub.subscribe(channel); an
\* error there is raised into the handler (except Exception).
WsSubscribe(c, F) ==
    /\ wsPc[c] = "next"
    /\ Subscribe(c, F)
    /\ wsPc' = [wsPc EXCEPT ![c] = IF subState'[c] = "closed" THEN "error"
                                   ELSE "next"]
    /\ UNCHANGED <<wsDoc, wsSent, active_connections>>

\* The async for asks the generator for the next item: one turn of the
\* generator's loop, which yields a decoded message or goes on listening.
WsNext(c) ==
    /\ wsPc[c] = "next"
    /\ Listen(c)
    /\ wsPc' = [wsPc EXCEPT ![c] = IF received'[c] # received[c] THEN "forward"
                                   ELSE "next"]
    /\ UNCHANGED <<wsDoc, wsSent, active_connections>>

\* await websocket.send_json(progress_data); on completed or failed:
\* sleep(0.5), break.
WsForward(c) ==
    /\ wsPc[c] = "forward"
    /\ LET progress_data == received[c][Len(received[c])] IN
       \/ /\ wsSent' = [wsSent EXCEPT ![c] = Append(@, progress_data)]
          /\ wsPc' = [wsPc EXCEPT ![c] =
                        IF progress_data.status \in TerminalStatuses
                        THEN "finally" ELSE "next"]
       \/ /\ wsPc' = [wsPc EXCEPT ![c] = "finally"]
          /\ UNCHANGED wsSent
    /\ UNCHANGED <<wsDoc, active_connections, queueVars, storeVars, workerVars,
                   subVars>>

\* except Exception: the error message is sent if the client is still there.
WsError(c) ==
    /\ wsPc[c] = "error"
    /\ \E clientOK \in BOOLEAN :
         wsSent' = [wsSent EXCEPT ![c] = IF clientOK THEN Append(@, ErrorMessage)
                                         ELSE @]
    /\ wsPc' = [wsPc EXCEPT ![c] = "finally"]
    /\ UNCHANGED <<wsDoc, active_connections, queueVars, storeVars, workerVars,
                   subVars>>

\* finally: manager.disconnect(document_id): the key is deleted if present.
WsFinally(c) ==
    /\ wsPc[c] = "finally"
    /\ active_connections' = [active_connections EXCEPT ![wsDoc[c]] = "-"]
    /\ wsPc' = [wsPc EXCEPT ![c] = "done"]
    /\ UNCHANGED <<wsDoc, wsSent, queueVars, storeVars, workerVars, subVars>>

\* The handler has left the async for without closing the generator: the
\* event loop's finalizer closes it once it is unreachable, which runs the
\* generator's finally clause (unsubscribe, close).
WsFinalize(c) ==
    /\ wsPc[c] \in {"finally", "done"}
    /\ Close(c)
    /\ UNCHANGED wsVars

WsStep(c, F) ==
    \/ WsHello(c) \/ WsSubscribe(c, F) \/ WsNext(c) \/ WsForward(c)
    \/ WsError(c) \/ WsFinally(c) \/ WsFinalize(c)

\* One worker and two WebSocket clients of the contract, which is uploaded
\* once; the worker's downloads and the handlers' subscriptions can fail.
WsWorkerFaults == {"storage"}
WsFaults == {"channel"}
WsUploads == {"d1"}
NextWs ==
    /\ UNCHANGED pureVars
    /\ \/ \E d \in WsUploads : Upload(d, WsWorkerFaults) /\ UNCHANGED wsVars
       \/ WorkerStep("w1", WsWorkerFaults) /\ UNCHANGED wsVars
       \/ \E c \in Subscribers, d \in WsUploads : WsConnect(c, d)
       \/ \E c \in Subscribers : WsStep(c, WsFaults)

WsSpec ==
    /\ Init /\ [][NextWs]_vars
    /\ \A c \in Subscribers : WF_vars(WsStep(c, WsFaults) /\ UNCHANGED pureVars)

\* ------------------------------------------- calls of the clause segmenter
\* A call of chunk_legal_document on the shared instance
\* (get_clause_chunking_service): it has no await inside, so it runs from
\* its first statement to its return without another coroutine in between.
ChunkLegalDocument(text, sz) ==
    /\ segIn = NoCall
    /\ LET r == chunk_legal_document(segCtx, text, sz.min, sz.max) IN
         /\ segCtx' = r.ctx
         /\ segOut' = r.chunks
         /\ segEmitted' = r.emitted
    /\ segPrev' = segCtx
    /\ segIn' = [text |-> text, min |-> sz.min, max |-> sz.max]
    /\ UNCHANGED <<clsVars, genVars, pipelineVars>>

\* The caller has taken the chunks; the instance stays as the call left it.
ChunksTaken ==
    /\ segIn # NoCall
    /\ segIn' = NoCall
    /\ segOut' = <<>>
    /\ segEmitted' = <<>>
    /\ UNCHANGED <<segCtx, segPrev, clsVars, genVars, pipelineVars>>

NextSeg ==
    \/ /\ segIn = NoCall
       /\ \E text \in Texts, sz \in Sizes : ChunkLegalDocument(text, sz)
    \/ ChunksTaken

SegSpec == Init /\ [][NextSeg]_vars

\* ------------------------------------------------ calls of the classifier
\* is_legal_doc = self._detect_legal_document(text, filename)
DetectLegalDocument(text, filename) ==
    /\ clsIn = NoClassification
    /\ clsIn' = [text |-> text, filename |-> filename]
    /\ clsOut' = detect_legal_document(text, filename)
    /\ UNCHANGED <<segVars, genVars, pipelineVars>>

\* The caller has branched on the result.
Classified ==
    /\ clsIn # NoClassification
    /\ clsIn' = NoClassification
    /\ clsOut' = FALSE
    /\ UNCHANGED <<segVars, genVars, pipelineVars>>

NextCls ==
    \/ /\ clsIn = NoClassification
       /\ \E text \in ClassifierTexts, filename \in Filenames :
            DetectLegalDocument(text, filename)
    \/ Classified

ClsSpec == Init /\ [][NextCls]_vars

\* ---------------------------------------- calls of the generic segmenter
\* chunks = await self.chunk_text(text)
ChunkText(svc, raw) ==
    /\ genIn = NoChunkText
    /\ genIn' = [svc |-> svc, raw |-> raw]
    /\ genOut' = chunk_text(svc, raw)
    /\ UNCHANGED <<estIn, estOut, segVars, clsVars, pipelineVars>>

\* The caller has taken the chunks or the exception.
ChunkTextReturned ==
    /\ genIn # NoChunkText
    /\ genIn' = NoChunkText
    /\ genOut' = NoChunks
    /\ UNCHANGED <<estIn, estOut, segVars, clsVars, pipelineVars>>

\* estimated = chunker.estimate_chunk_count(text_length)
EstimateChunkCount(svc, text_length) ==
    /\ estIn = NoEstimate
    /\ estIn' = [svc |-> svc, text_length |-> text_length]
    /\ estOut' = estimate_chunk_count(svc, text_length)
    /\ UNCHANGED <<genIn, genOut, segVars, clsVars, pipelineVars>>

\* The caller has taken the estimate.
Estimated ==
    /\ estIn # NoEstimate
    /\ estIn' = NoEstimate
    /\ estOut' = 0
    /\ UNCHANGED <<genIn, genOut, segVars, clsVars, pipelineVars>>

NextGen ==
    \/ /\ genIn = NoChunkText
       /\ \E svc \in Services : \E raw \in RawChunks(svc) : ChunkText(svc, raw)
    \/ ChunkTextReturned
    \/ /\ estIn = NoEstimate
       /\ \E svc \in Services, n \in TextLengths : EstimateChunkCount(svc, n)
    \/ Estimated

GenSpec == Init /\ [][NextGen]_vars

\* ================================================================= claims
Last(seq) == seq[Len(seq)]
IsPrefix(a, b) == Len(a) <= Len(b) /\ \A i \in 1..Len(a) : a[i] = b[i]
QueueIds == {queue[i].id : i \in 1..Len(queue)}

\* The status changes the state machine of the documents allows
\* (none -> queued is the creation of the row by the upload).
AllowedTransitions ==
    {<<"none", "queued">>, <<"queued", "processing">>,
     <<"processing", "completed">>, <<"processing", "failed">>}

\* C1: the persisted status of every document changes only along
\* Queued->Processing, Processing->Completed, Processing->Failed; nothing is
\* skipped or reversed, Completed and Failed are never left.
C1_OnlyAllowedTransitions ==
    [][\A d \in Docs :
         docs'[d].status # docs[d].status =>
           <<docs[d].status, docs'[d].status>> \in AllowedTransitions]_vars

\* The stages of process_job in the order of the source, and the progress
\* events of a run in which none of them fails.
StageOrder == <<"set_processing", "download", "extract", "chunk", "embed",
                "ensure", "insert", "set_completed">>
SuccessEvents == <<<<"processing", 5>>, <<"processing", 15>>,
                   <<"processing", 30>>, <<"processing", 50>>,
                   <<"processing", 70>>, <<"processing", 90>>,
                   <<"completed", 100>>>>
\* The stages a job has started, without the except clause.
Body(w) ==
    IF stagesRun[w] # <<>> /\ Last(stagesRun[w]) = "set_failed"
    THEN SubSeq(stagesRun[w], 1, Len(stagesRun[w]) - 1)
    ELSE stagesRun[w]
\* The number of events that have been published when stage number n starts
\* (no event lies between ensure-collection and the insertion).
EventsBefore(n) == IF n <= 6 THEN n - 1 ELSE n - 2
\* The events of a run that are not the 'failed' event.
Forward(w) == SelectSeq(runEvents[w], LAMBDA e : e[1] # "failed")

\* C2: within one job the stages run in the fixed order, each only after the
\* one before it succeeded (its progress event is out), and a run without a
\* failure publishes exactly 5, 15, 30, 50, 70, 90 and completed/100.
C2_StageOrder ==
    \A w \in Workers :
      /\ IsPrefix(Body(w), StageOrder)
      /\ IsPrefix(Forward(w), SuccessEvents)
      /\ Body(w) # <<>> => Len(Forward(w)) >= EventsBefore(Len(Body(w)))
      /\ (pc[w] \notin {"set_failed", "pub_failed", "returned", "backoff"}
            /\ Body(w) # <<>>) =>
           Len(Forward(w)) <= EventsBefore(Len(Body(w))) + 1
      /\ (pc[w] = "returned" /\ err[w] = NoErr) =>
           /\ runEvents[w] = SuccessEvents
           /\ stagesRun[w] = StageOrder

C2_Witness ==
    \E w \in Workers :
      pc[w] = "returned" /\ err[w] = NoErr /\ Len(runEvents[w]) = 7

\* The stages the claim about a failing stage names.
PipelineStages == {"download", "extract", "chunk", "embed", "ensure", "insert"}
\* The job of w ended with a stage of the pipeline raising.
StageRaised(w) ==
    err[w] # NoErr /\ Body(w) # <<>> /\ Last(Body(w)) \in PipelineStages

\* C3 as stated: whenever a stage of a job has raised and process_job is
\* over, the document is Failed with the error's message and a failed/0
\* event has been published.
C3_Original ==
    \A w \in Workers :
      (StageRaised(w) /\ pc[w] \in {"returned", "backoff"}) =>
        /\ docs[job[w].doc].status = "failed"
        /\ docs[job[w].doc].error_message = err[w]
        /\ runEvents[w] # <<>> /\ Last(runEvents[w]) = <<"failed", 0>>

\* C3 amended: once a statement of the try block has raised, the only thing
\* the job still runs is the except clause; when its status write succeeds
\* and the document has a row, the row becomes Failed with the raised error's
\* message and then failed/0 is published; when that write raises, no row
\* changes, nothing is published and the exception leaves process_job.
C3_FailurePath ==
    [][\A w \in Workers :
         LET d == job[w].doc IN
         /\ (pc[w] = "set_failed" /\ pc'[w] = "pub_failed") =>
              /\ err[w] # NoErr
              /\ docs[d].status # "none" =>
                   /\ docs'[d].status = "failed"
                   /\ docs'[d].error_message = err[w]
              /\ runEvents'[w] = runEvents[w]
         /\ (pc[w] = "set_failed" /\ pc'[w] \notin {"set_failed", "pub_failed", "stopped"}) =>
              /\ pc'[w] = "backoff"
              /\ docs' = docs
              /\ runEvents'[w] = runEvents[w]
         /\ (pc[w] = "pub_failed" /\ pc'[w] \notin {"pub_failed", "stopped"}) =>
              /\ pc'[w] = "returned"
              /\ runEvents'[w] = Append(runEvents[w], <<"failed", 0>>)
              /\ docs' = docs
         /\ (err[w] # NoErr /\ pc'[w] # "stopped" /\ pc'[w] # "poll") =>
              /\ Body(w)' = Body(w)
              /\ err'[w] = err[w]
              /\ pc[w] \in {"set_failed", "pub_failed", "returned", "backoff"}
       ]_vars

C3_Witness ==
    \E w \in Workers :
      /\ pc[w] = "returned" /\ StageRaised(w) /\ err[w] = EmbedErrorMsg
      /\ docs[job[w].doc].status = "failed"
      /\ docs[job[w].doc].error_message = EmbedErrorMsg
      /\ Last(runEvents[w]) = <<"failed", 0>>

\* C5: a job that ended in failure has published exactly one 'failed' event,
\* as its last event, its document is Failed, and a document that is Failed
\* stays Failed.
C5_FailedIsFinal ==
    /\ [](\A w \in Workers :
            (pc[w] = "returned" /\ err[w] # NoErr) =>
              /\ Len(SelectSeq(runEvents[w], LAMBDA e : e[1] = "failed")) = 1
              /\ Last(runEvents[w])[1] = "failed"
              /\ docs[job[w].doc].status \in {"failed", "none"})
    /\ [][\A d \in Docs :
            docs[d].status = "failed" => docs'[d].status = "failed"]_vars

\* C9: a publish that fails (or reaches nobody) never becomes the job's
\* error and never changes where the job goes next; a run in which a publish
\* failed and no stage did ends with every stage run and the document
\* Completed with its page and chunk counts.
C9_PublishIsAdvisory ==
    \A w \in Workers :
      /\ err[w] # PublishErrorMsg
      /\ (pc[w] \in PublishPcs \/ pc[w] = "returned") =>
           (err[w] = NoErr <=> pc[w] # "pub_failed" /\
              (pc[w] = "returned" => Last(runEvents[w])[1] # "failed"))
      /\ (pubFailed[w] /\ pc[w] = "returned" /\ err[w] = NoErr) =>
           /\ stagesRun[w] = StageOrder
           /\ runEvents[w] = SuccessEvents
           /\ docs[job[w].doc].status # "none" =>
                docs[job[w].doc] =
                  [status |-> "completed",
                   error_message |-> docs[job[w].doc].error_message,
                   num_pages |-> PageCount(job[w].doc),
                   num_chunks |-> ChunkCount(job[w].doc)]

C9_Witness ==
    \E w \in Workers :
      /\ pubFailed[w] /\ pc[w] = "returned" /\ err[w] = NoErr
      /\ docs[job[w].doc].status = "completed"
      /\ vectors[job[w].doc] = "all"

\* C6: the loop of a worker ends only on the shutdown signal; from every
\* other place (the sleep after an empty or failed dequeue, the backoff after
\* an exception that escaped process_job, the middle of a job) the worker
\* polls the queue again; and it never has two jobs in progress.
C6_LoopGoesOn ==
    /\ [](\A w \in Workers : pc[w] = "stopped" => signalled[w])
    /\ [](\A w \in Workers : Cardinality(inProgress[w]) <= 1)
    /\ \A w \in Workers :
         (pc[w] \in {"sleep1", "backoff"}) ~> (pc[w] = "poll" \/ signalled[w])
    /\ \A w \in Workers :
         (pc[w] # "poll") ~> (pc[w] = "poll" \/ signalled[w])

C6_Witness ==
    \E w \in Workers :
      pc[w] = "backoff" /\ ~signalled[w] /\ err[w] # NoErr /\ job[w] # NoJob

\* C7: with two workers on the queue every job is handed to exactly one of
\* them: no entry is returned by dequeue twice, an entry still in the queue
\* has been handed to nobody, an entry that left it to exactly one worker,
\* and two workers never hold the same entry.
C7_ExactlyOneConsumer ==
    /\ \A e \in EntryIds :
         /\ delivered[e] <= 1
         /\ e \in QueueIds => delivered[e] = 0
         /\ (e < nextId /\ e \notin QueueIds) => delivered[e] = 1
    /\ \A w1 \in Workers, w2 \in Workers :
         (w1 # w2 /\ job[w1] # NoJob /\ job[w2] # NoJob) => job[w1].id # job[w2].id

C7_Witness ==
    \E w1 \in Workers, w2 \in Workers :
      /\ w1 # w2 /\ inProgress[w1] # {} /\ inProgress[w2] # {}
      /\ job[w1].doc = job[w2].doc
      /\ queue # <<>>

\* C8: an entry that dequeue has returned is never in the queue again and
\* is never returned again: only the upload and outside pushes append to the
\* queue, with fresh entries. Stopping a worker in the middle of a job
\* changes no document and no queue, the stopped worker does nothing more,
\* and a document's row changes only by a status write of a running worker
\* that holds a job for it (or by its creation).
C8_NoRequeue ==
    /\ [](\A e \in EntryIds : delivered[e] <= 1)
    /\ [][/\ \A e \in EntryIds :
               (e < nextId /\ e \notin QueueIds) => e \notin QueueIds'
          /\ nextId' = nextId =>
               (queue' = queue \/ (queue # <<>> /\ queue' = Tail(queue)))
          /\ \A w \in Workers :
               /\ (pc[w] # "stopped" /\ pc'[w] = "stopped") =>
                    (docs' = docs /\ queue' = queue)
               /\ pc[w] = "stopped" => (pc'[w] = "stopped" /\ job'[w] = job[w])
          /\ \A d \in Docs :
               docs'[d] # docs[d] =>
                 \/ docs[d].status = "none" /\ docs'[d] = NewDocument
                 \/ \E w \in Workers :
                      /\ job[w].doc = d /\ pc'[w] # pc[w]
                      /\ pc[w] \in {"set_processing", "set_completed", "set_failed"}
         ]_vars

C8_Witness ==
    \E w \in Workers :
      /\ pc[w] = "stopped" /\ job[w] # NoJob
      /\ docs[job[w].doc].status = "processing"
      /\ job[w].id \notin QueueIds
      /\ \A v \in Workers : v # w => job[v].doc # job[w].doc

\* The events of queue entry e that subscriber s has been handed.
Obs(s, e) == SelectSeq(received[s], LAMBDA m : m.job = e)
\* s was subscribed to the channel of e's document before e's job published
\* anything and still is.
WholeJob(s, e) ==
    /\ subState[s] = "subscribed" /\ subAt[s][e] = 0
    /\ \E w \in Workers : job[w].id = e /\ job[w].doc = subDoc[s]

\* C4 as stated: the progress values a subscriber observes never decrease,
\* and once the job it watched from the start is over, the last event it
\* has is completed/100 or a 'failed' event.
C4_Original ==
    \A s \in Subscribers :
      /\ \A i \in 1..Len(received[s]), j \in 1..Len(received[s]) :
           i < j => received[s][i].progress <= received[s][j].progress
      /\ \A e \in EntryIds :
           (WholeJob(s, e) /\ inbox[s] = <<>> /\
            \E w \in Workers : job[w].id = e /\ pc[w] \in {"returned", "backoff"}) =>
             /\ Obs(s, e) # <<>>
             /\ Last(Obs(s, e)).status \in {"completed", "failed"}

\* C4 amended: for a subscriber connected for the whole of a job, the
\* progress values of the job's events are non-decreasing up to the terminal
\* event; 'completed' carries 100, 'failed' carries 0 (less than the events
\* before it), nothing follows the terminal event; and when process_job has
\* returned and no publish of the job failed, the subscriber has been handed
\* all its events, the last being completed/100 or failed/0.
C4_MonotoneUntilTerminal ==
    \A s \in Subscribers, e \in EntryIds :
      LET o == Obs(s, e) IN
      subAt[s][e] = 0 =>
        /\ \A i \in 1..Len(o), j \in 1..Len(o) :
             (i < j /\ o[j].status # "failed") => o[i].progress <= o[j].progress
        /\ \A i \in 1..Len(o) :
             /\ o[i].status \in {"completed", "failed"} => i = Len(o)
             /\ o[i].status = "completed" <=> o[i].progress = 100
             /\ o[i].status = "failed" <=> o[i].progress = 0
        /\ \A w \in Workers :
             (WholeJob(s, e) /\ inbox[s] = <<>> /\ job[w].id = e /\
              pc[w] = "returned" /\ ~pubFailed[w]) =>
               /\ Len(o) = Len(runEvents[w])
               /\ \A i \in 1..Len(o) :
                    <<o[i].status, o[i].progress>> = runEvents[w][i]
               /\ Last(o).status \in {"completed", "failed"}

C4_Witness ==
    \E s \in Subscribers, e \in EntryIds :
      /\ WholeJob(s, e) /\ inbox[s] = <<>>
      /\ Len(Obs(s, e)) >= 3
      /\ Last(Obs(s, e)).status = "failed" /\ Last(Obs(s, e)).progress = 0
      /\ \E w \in Workers : job[w].id = e /\ pc[w] = "returned"

\* Publication order on one channel: the jobs of one worker run one after
\* the other in the order of their entries, the calls of a job in sequence.
PublishedBefore(a, b) == a.job < b.job \/ (a.job = b.job /\ a.idx < b.idx)

\* C10: what subscribe() yields is messages of the subscribed channel only,
\* in publication order, none twice, and none that was published before the
\* subscription became active (in particular none of a job that was over).
C10_NoReplayInOrder ==
    \A s \in Subscribers :
      /\ \A i \in 1..Len(received[s]) :
           /\ received[s][i].type = "message"
           /\ received[s][i].doc = subDoc[s]
           /\ received[s][i].idx > subAt[s][received[s][i].job]
      /\ \A i \in 1..Len(received[s]), j \in 1..Len(received[s]) :
           i < j => PublishedBefore(received[s][i], received[s][j])

C10_Witness ==
    \E s \in Subscribers :
      /\ Len(received[s]) >= 2
      /\ subAt[s][received[s][1].job] >= 1
      /\ \E e \in EntryIds :
           subAt[s][e] = Cardinality(PublishPcs) /\ Obs(s, e) = <<>>

\* C11: a job whose run ends with the document Completed has all of its
\* chunks in the vector store; an insertion that stored fewer ends the job
\* Failed.
C11_CompletedMeansAllStored ==
    \A w \in Workers :
      (pc[w] \in {"pub100", "returned"} /\ err[w] = NoErr /\
       stagesRun[w] = StageOrder /\ docs[job[w].doc].status = "completed") =>
        vectors[job[w].doc] = "all"

\* The positions of the section_header chunks of an output up to position j
\* (a section_header chunk opens its own section).
HeadersBefore(out, j) ==
    {i \in 1..j : out[i].chunk_type = "section_header"}
\* The largest element of a non-empty set of numbers.
Max(S) == CHOOSE x \in S : \A y \in S : y <= x

\* C12: in the output of one chunk_legal_document call every chunk that
\* follows a section_header chunk carries the section_number and
\* section_title of the nearest section_header chunk before it, split and
\* merged chunks included.
C12_SectionOfNearestHeader ==
    \A j \in 1..Len(segOut) :
      HeadersBefore(segOut, j) # {} =>
        LET h == segOut[Max(HeadersBefore(segOut, j))] IN
        /\ segOut[j].section_number = h.section_number
        /\ segOut[j].section_title = h.section_title

\* A call on an instance that held another section, whose output has a
\* merged chunk after a section header.
C12_Witness ==
    /\ \E i \in 1..Len(segOut), j \in 1..Len(segOut) :
         /\ i < j
         /\ segOut[i].chunk_type = "section_header"
         /\ segOut[j].chunk_type = "combined"
         /\ segOut[i].section_number # segPrev.section_number
    /\ segPrev # PreambleContext

\* What the pass over the paragraphs emitted in the call under way, before
\* the size optimization.
Emitted == segEmitted
\* The emitted chunk made of paragraph i.
EmittedOf(i) ==
    Emitted[CHOOSE k \in 1..Len(Emitted) : Emitted[k].paras = <<i>>]
\* The section a paragraph of the text lies in: the position of the last
\* section header paragraph up to it (0: before the first header).
SectionOfPara(i) ==
    LET ps == Paragraphs(segIn.text)
        hs == {k \in 1..i : ps[k].kind = "header"}
    IN  IF hs = {} THEN 0 ELSE Max(hs)

\* C13: a chunk of the output is a merge of two exactly when its type is
\* 'combined'; it then is the merge of an emitted chunk shorter than
\* min_chunk_size and the emitted chunk after it, both of the same
\* section_number and neither a section_header, their lengths adding up to
\* less than max_chunk_size; it carries the first one's clause number; and
\* its text comes from one section of the document only.
C13_MergeWithinSection ==
    \A j \in 1..Len(segOut) :
      LET c == segOut[j] IN
      /\ c.chunk_type = "combined" <=> Len(c.paras) = 2
      /\ Len(c.paras) <= 2
      /\ Len(c.paras) = 2 =>
           LET x == EmittedOf(c.paras[1])
               y == EmittedOf(c.paras[2])
           IN  /\ c.paras[2] = c.paras[1] + 1
               /\ x.len < segIn.min
               /\ x.section_number = y.section_number
               /\ x.len + y.len < segIn.max
               /\ x.chunk_type # "section_header"
               /\ y.chunk_type # "section_header"
               /\ c.clause_number = x.clause_number
               /\ c.section_number = x.section_number
               /\ SectionOfPara(c.paras[1]) = SectionOfPara(c.paras[2])

\* An output with a section header, a merged chunk, and a short chunk that
\* was left alone.
C13_Witness ==
    /\ \E j \in 1..Len(segOut) : segOut[j].chunk_type = "combined"
    /\ \E j \in 1..Len(segOut) : segOut[j].chunk_type = "section_header"
    /\ Len(segOut) = 2
    /\ Len(Paragraphs(segIn.text)) = 3

\* C14: no chunk chunk_legal_document returns is longer than max_chunk_size.
C14_NoChunkOverMax ==
    \A j \in 1..Len(segOut) : segOut[j].len <= segIn.max

\* The lower-cased sample of the classification under way.
ClsSample == Sample(clsIn.text, 1, 0)
\* Rule 1: the lower-cased filename contains a keyword.
ByFilename == clsIn.filename.holds \cap legal_filename_keywords # {}
\* Rule 2 as the claim has it: three clause numbers, or two section
\* headings in any capitalisation.
ByStructureAnyCase ==
    \/ Cardinality({i \in 1..Len(ClsSample) : ClsSample[i].kind = "number"}) >= 3
    \/ Cardinality({i \in 1..Len(ClsSample) : ClsSample[i].kind = "heading"}) >= 2
\* Rule 3 as the claim has it: five occurrences of terms of the vocabulary.
ByOccurrences ==
    Cardinality({<<i, t>> \in (1..Len(ClsSample)) \X legal_terms :
                   t \in ClsSample[i].holds}) >= 5

\* C15 as stated: the classifier returns true exactly when the filename has
\* a keyword, or the sample has 3 clause numbers or 2 section headings
\* matched without regard to case, or 5 occurrences of legal terms.
C15_Original ==
    clsIn # NoClassification =>
      (clsOut <=> (ByFilename \/ ByStructureAnyCase \/ ByOccurrences))

\* Rule 2 of the code: the headings count only in the spellings Article,
\* Section, ARTICLE, SECTION, Clause, CLAUSE.
ByStructure ==
    \/ Cardinality({i \in 1..Len(ClsSample) : ClsSample[i].kind = "number"}) >= 3
    \/ Cardinality({i \in 1..Len(ClsSample) :
                      /\ ClsSample[i].kind = "heading"
                      /\ ClsSample[i].word \in SectionSpellings}) >= 2
\* Rule 3 of the code: five different terms of the vocabulary occur.
ByDistinctTerms ==
    Cardinality(UNION {ClsSample[i].holds \cap legal_terms :
                         i \in 1..Len(ClsSample)}) >= 5

\* C15 amended: the classifier returns true exactly when the lower-cased
\* filename contains a keyword, or the first 5000 characters have 3 matches
\* of the clause-number pattern or 2 matches of the section pattern in one of
\* the spellings Article, Section, ARTICLE, SECTION, Clause, CLAUSE, or at
\* least 5 different terms of the vocabulary occur in them (each term counted
\* once, however often it occurs).
C15_Classifier ==
    clsIn # NoClassification =>
      (clsOut <=> (ByFilename \/ ByStructure \/ ByDistinctTerms))

\* A text the third rule decides: five different terms, no keyword in the
\* filename, too few clause numbers and headings.
C15_Witness ==
    /\ clsIn # NoClassification
    /\ clsOut /\ ~ByFilename /\ ~ByStructure
    /\ Len(ClsSample) < Len(clsIn.text)

\* The chunk types of a list of chunks, in order.
Types(chunks) == [i \in 1..Len(chunks) |-> chunks[i].chunk_type]
\* A job of the contract d1 has run to its end without an error and the
\* document has its row.
ContractDone(w) ==
    /\ pc[w] = "returned" /\ err[w] = NoErr /\ job[w].doc = "d1"
    /\ docs["d1"].status = "completed"

\* C16 as stated: for the two-page contract the classifier returns true,
\* the segmenter returns 1 section_header and 2 clause chunks, 3 embeddings
\* are generated, the document ends Completed with num_chunks = 3 and
\* num_pages = 2, and the last event is completed/100.
C16_Original ==
    \A w \in Workers :
      ContractDone(w) =>
        /\ detect_legal_document(DocTokens("d1"), DocFilename("d1"))
        /\ Types(LegalChunks("d1")) = <<"section_header", "clause", "clause">>
        /\ Len(embed_chunks(LegalChunks("d1"))) = 3
        /\ docs["d1"].num_chunks = 3
        /\ docs["d1"].num_pages = 2
        /\ Last(runEvents[w]) = <<"completed", 100>>

\* C16 amended: the classifier returns true for the contract because of the
\* keyword in its file name (the text alone, under a name without a keyword,
\* is not classified legal); the pass of the segmenter emits 1 section_header
\* and 2 clause chunks, which the size optimization merges into
\* 1 section_header and 1 combined chunk; 2 embeddings are generated; the
\* document ends Completed with num_chunks = 2 and num_pages = 2, and the
\* last event is completed/100.
C16_ContractScenario ==
    \A w \in Workers :
      ContractDone(w) =>
        /\ detect_legal_document(DocTokens("d1"), DocFilename("d1"))
        /\ ~detect_legal_document(DocTokens("d1"), DocFilename("d2"))
        /\ Types(chunk_legal_document(PreambleContext, DocParagraphs("d1"),
                                      DefaultMinChunkSize,
                                      DefaultMaxChunkSize).emitted)
             = <<"section_header", "clause", "clause">>
        /\ Types(LegalChunks("d1")) = <<"section_header", "combined">>
        /\ Len(embed_chunks(LegalChunks("d1"))) = 2
        /\ docs["d1"].num_chunks = 2
        /\ docs["d1"].num_pages = 2
        /\ Last(runEvents[w]) = <<"completed", 100>>

C16_Witness ==
    \E w \in Workers :
      /\ ContractDone(w)
      /\ vectors["d1"] = "all"
      /\ runEvents[w] = SuccessEvents

\* Document d has a job: an entry of the queue, or a job a worker is
\* processing.
HasJob(d) ==
    \/ \E i \in 1..Len(queue) : queue[i].doc = d
    \/ \E w \in Workers : job[w].doc = d /\ job[w].id \in inProgress[w]

\* C17: when the upload endpoint has returned success (the Document row is
\* there, Queued) a job with that document_id has been appended to the
\* queue; and every document that is Queued has a job in the queue or in
\* processing.
C17_QueuedHasJob ==
    /\ [][\A d \in Docs :
            (docs[d].status = "none" /\ docs'[d].status = "queued") =>
              \E i \in 1..Len(queue') : queue'[i].doc = d]_vars
    /\ [](\A d \in Docs : docs[d].status = "queued" => HasJob(d))

\* A status write of worker w raises in this step: set Processing or set
\* Completed (the only way from there to the except clause), or set Failed
\* (the only way from there to the backoff of the loop).
WriteRaises(w) ==
    \/ pc[w] \in {"set_processing", "set_completed"} /\ pc'[w] = "set_failed"
    \/ pc[w] = "set_failed" /\ pc'[w] = "backoff"

\* C18 as stated: a status write that raises is not handled by the
\* orchestrator: the exception leaves process_job for the loop of the worker,
\* and the record keeps the status it had for the rest of the job.
C18_Original ==
    [][\A w \in Workers :
         /\ WriteRaises(w) => (pc'[w] = "backoff" /\ docs' = docs)
         /\ (err[w] = DbErrorMsg /\ pc'[w] \notin {"poll", "stopped"}) =>
              docs'[job[w].doc].status = docs[job[w].doc].status
      ]_vars

\* C18 amended: a write that raises leaves every record as it was. When set
\* Processing or set Completed raises, the except clause of process_job
\* catches it like the error of a stage and attempts set Failed with that
\* error's message; only when set Failed raises does the exception leave
\* process_job: no 'failed' event is published, the job is over, and the loop
\* of the worker polls again after its backoff. A set Failed that does not
\* raise has written Failed to the record (if there is one).
C18_StatusWriteRaises ==
    [][\A w \in Workers :
         LET d == job[w].doc IN
         /\ WriteRaises(w) => docs' = docs
         /\ (pc[w] \in {"set_processing", "set_completed"} /\
             pc'[w] = "set_failed") => err'[w] = DbErrorMsg
         /\ (pc[w] = "set_failed" /\ pc'[w] = "backoff") =>
              /\ runEvents'[w] = runEvents[w]
              /\ job[w].id \notin inProgress'[w]
         /\ (pc[w] = "set_failed" /\ pc'[w] = "pub_failed" /\
             docs[d].status # "none") =>
              /\ docs'[d].status = "failed"
              /\ docs'[d].error_message = err[w]
         /\ (pc[w] = "set_failed" /\ pc'[w] \notin {"set_failed", "stopped"}) =>
              pc'[w] \in {"pub_failed", "backoff"}
         /\ (pc[w] = "backoff" /\ pc'[w] \notin {"backoff", "stopped"}) =>
              pc'[w] = "poll"
      ]_vars

\* Set Processing raised and then set Failed raised: the exception is with
\* the loop and the record is still Queued.
C18_Witness ==
    \E w \in Workers :
      /\ pc[w] = "backoff" /\ err[w] = DbErrorMsg
      /\ stagesRun[w] = <<"set_processing", "set_failed">>
      /\ docs[job[w].doc].status = "queued"

C20_OutputIndependentOfHistory ==
    segIn # NoCall =>
        segOut = chunk_legal_document(PreambleContext, segIn.text,
                                      segIn.min, segIn.max).chunks

\* The chunks of the output made of paragraph i alone, in output order.
OutputOf(i) == SelectSeq(segOut, LAMBDA c : c.paras = <<i>>)
\* The sentences of a sequence of chunks, in order.
RECURSIVE Sentences(_)
Sentences(chunks) ==
    IF chunks = <<>> THEN <<>>
    ELSE Head(chunks).sents \o Sentences(Tail(chunks))
\* The paragraphs whose emitted chunk is longer than max_chunk_size.
Oversized ==
    {i \in 1..Len(Paragraphs(segIn.text)) :
       /\ \E k \in 1..Len(Emitted) : Emitted[k].paras = <<i>>
       /\ EmittedOf(i).len > segIn.max}

Numbered(c) ==
    /\ c.chunk_type \in {"clause", "sub_clause"}
    /\ Paragraphs(segIn.text)[c.paras[1]].kind = "clause"
\* hierarchy_level agrees with the nesting depth of the chunk_type, and
\* with the dots of the clause number of a numbered clause.
LevelAgrees(c) ==
    /\ c.chunk_type = "section_header" => c.hierarchy_level = 0
    /\ c.chunk_type \in {"clause", "paragraph"} => c.hierarchy_level = 1
    /\ c.chunk_type = "sub_clause" => c.hierarchy_level >= 2
    /\ Numbered(c) => c.hierarchy_level = Len(c.clause_number) - 1
\* The chunk is a sub-chunk of a split.
IsSubChunk(c) == Len(c.paras) = 1 /\ c.paras[1] \in Oversized

C23_StartCharNonDecreasing ==
    genIn # NoChunkText =>
        \A j \in 1..(Len(genOut.chunks) - 1) :
            genOut.chunks[j].start_char <= genOut.chunks[j + 1].start_char

\* The smallest k with k * d >= n, for d > 0 and n >= 0.
Ceil(n, d) == CHOOSE k \in 0..n : k * d >= n /\ \A m \in 0..(k - 1) : m * d < n

\* C24: estimate_chunk_count returns 1 when chunk_overlap >= chunk_size,
\* and max(1, ceil(text_length / (chunk_size - chunk_overlap))) otherwise.
C24_EstimateNeverDividesByNonPositive ==
    estIn # NoEstimate =>
        LET svc == estIn.svc
            n == estIn.text_length
        IN  IF svc.chunk_overlap >= svc.chunk_size THEN estOut = 1
            ELSE LET c == Ceil(n, svc.chunk_size - svc.chunk_overlap)
                 IN  estOut = IF c >= 1 THEN c ELSE 1

\* C25: in every state of every document record, error_message is set only
\* if the status is Failed and num_chunks is set only if the status is
\* Completed.
C25_FieldsMatchStatus ==
    \A d \in Docs :
        /\ docs[d].error_message # None => docs[d].status = "failed"
        /\ docs[d].num_chunks # 0 => docs[d].status = "completed"

\* C26: a 'completed' event is published for a document only when its
\* record has status Completed, and a 'failed' event only when its record
\* has status Failed.
C26_TerminalEventAgreesWithRecord ==
    [][\A w \in Workers :
         LET d == job[w].doc IN
         /\ (pc[w] = "pub100" /\ runEvents'[w] # runEvents[w]) =>
              d \in Docs /\ docs[d].status = "completed"
         /\ (pc[w] = "pub_failed" /\ runEvents'[w] # runEvents[w]) =>
              d \in Docs /\ docs[d].status = "failed"
       ]_vars

\* C27: every document that is Completed had at least one chunk embedded
\* and stored: its num_chunks is at least 1 and the vector store holds
\* chunks of it.
C27_CompletedHasChunks ==
    \A d \in Docs :
        docs[d].status = "completed" =>
            docs[d].num_chunks >= 1 /\ vectors[d] # "none"

\* The paragraphs of the text of the call under way.
InputParas == Paragraphs(segIn.text)
\* Paragraph i matches no pattern, is no longer than min_chunk_size and no
\* chunk has been emitted before it: it is dropped.
Dropped(i) ==
    \A k \in 1..i :
        /\ InputParas[k].kind = "plain"
        /\ TextLen(InputParas[k].sents) <= segIn.min
\* The positions of the output whose chunk holds text of paragraph i.
PositionsOf(i) ==
    {j \in 1..Len(segOut) :
       \E k \in 1..Len(segOut[j].paras) : segOut[j].paras[k] = i}
\* The sentences of the paragraphs a chunk is made of, in order.
RECURSIVE SentencesOfParas(_)
SentencesOfParas(ps) ==
    IF ps = <<>> THEN <<>>
    ELSE InputParas[Head(ps)].sents \o SentencesOfParas(Tail(ps))
\* Dropped paragraphs are in no chunk and the kept ones are in the output
\* in input order.
KeptInOrder ==
    /\ \A i \in 1..Len(InputParas) : Dropped(i) <=> PositionsOf(i) = {}
    /\ \A i, k \in 1..Len(InputParas) :
         i < k => \A a \in PositionsOf(i), b \in PositionsOf(k) : a <= b
    /\ \A j \in 1..Len(segOut) :
         \A a, b \in 1..Len(segOut[j].paras) :
             a < b => segOut[j].paras[a] < segOut[j].paras[b]

\* C28 as stated: every non-empty paragraph that is not dropped is, in
\* input order, in the text of exactly one returned chunk.
C28_Original ==
    segIn # NoCall =>
        /\ KeptInOrder
        /\ \A i \in 1..Len(InputParas) :
             ~Dropped(i) =>
                 /\ Cardinality(PositionsOf(i)) = 1
                 /\ \A j \in PositionsOf(i) :
                      segOut[j].sents = SentencesOfParas(segOut[j].paras)
\* C28 amended: the same, but a paragraph whose chunk is longer than
\* max_chunk_size is spread, sentence by sentence and in order, over the
\* consecutive sub-chunks of its split instead of being in one chunk.
C28_NoParagraphLost ==
    segIn # NoCall =>
        /\ KeptInOrder
        /\ \A i \in 1..Len(InputParas) :
             (~Dropped(i) /\ i \notin Oversized) =>
                 /\ Cardinality(PositionsOf(i)) = 1
                 /\ \A j \in PositionsOf(i) :
                      segOut[j].sents = SentencesOfParas(segOut[j].paras)
        /\ \A i \in Oversized :
             /\ PositionsOf(i) # {}
             /\ \A a, b \in PositionsOf(i) :
                  \A j \in a..b : j \in PositionsOf(i)
             /\ \A j \in PositionsOf(i) : segOut[j].paras = <<i>>
             /\ Sentences(OutputOf(i)) = InputParas[i].sents
\* A call whose first paragraph is dropped and that has a paragraph split
\* in two.
C28_Witness ==
    /\ segIn # NoCall
    /\ \E i \in 1..Len(InputParas) : Dropped(i)
    /\ \E i \in Oversized : Cardinality(PositionsOf(i)) = 2

\* Worker w makes a dequeue call that takes something off the list.
Pops(w) == pc[w] = "poll" /\ pc'[w] # "poll" /\ queue' # queue

\* C29: a queue entry whose payload is not valid JSON is removed by dequeue,
\* which returns None as on a timeout: the worker does not process it,
\* changes no document, publishes nothing and, after its sleep, polls again.
C29_InvalidPayloadDropped ==
    [][\A w \in Workers :
         /\ (Pops(w) /\ ~Head(queue).valid) =>
              /\ queue' = Tail(queue)
              /\ job'[w] = NoJob
              /\ pc'[w] = RunDispatch(dequeue(<<>>, TRUE).job)
              /\ pc'[w] = "sleep1"
              /\ inProgress' = inProgress /\ delivered' = delivered
              /\ docs' = docs /\ vectors' = vectors
              /\ runEvents'[w] = <<>> /\ stagesRun'[w] = <<>>
              /\ inbox' = inbox
         /\ (pc[w] = "sleep1" /\ pc'[w] # "sleep1") =>
              /\ pc'[w] \in {"poll", "stopped"}
              /\ docs' = docs /\ runEvents'[w] = <<>>
       ]_vars
\* The worker sleeps after a dequeue that took an invalid payload off the
\* list: the entry is gone and was never delivered, while an uploaded
\* document waits in the queue.
C29_Witness ==
    \E w \in Workers, e \in EntryIds :
        /\ pc[w] = "sleep1"
        /\ e < nextId /\ delivered[e] = 0
        /\ \A i \in 1..Len(queue) : queue[i].id # e
        /\ \E d \in Docs : docs[d].status = "queued" /\ HasJob(d)

\* The progress events sent to the client of connection c, in order.
EventsSent(c) == SelectSeq(wsSent[c], LAMBDA m : m.type = "message")
\* A terminal event has been forwarded to the client of connection c.
TerminalSent(c) ==
    \E i \in 1..Len(EventsSent(c)) : EventsSent(c)[i].status \in TerminalStatuses

\* C30: for each WebSocket connection the handler first sends 'connected',
\* then forwards the events of the document's channel in the order
\* received; after forwarding the first completed or failed event it
\* forwards nothing more, unsubscribes, and removes the entry of the
\* connection (its own, no other) from active_connections.
C30_HandlerForwardsUntilTerminal ==
    /\ [](\A c \in Subscribers :
            /\ wsSent[c] # <<>> => wsSent[c][1] = ConnectedMessage(wsDoc[c])
            /\ IsPrefix(EventsSent(c), received[c])
            /\ \A i \in 1..(Len(EventsSent(c)) - 1) :
                 EventsSent(c)[i].status \notin TerminalStatuses
            /\ TerminalSent(c) => wsPc[c] \in {"finally", "done"})
    /\ [][\A c \in Subscribers :
            (TerminalSent(c) /\ wsPc[c] = "finally" /\ wsPc'[c] = "done") =>
                /\ active_connections[wsDoc[c]] = c
                /\ active_connections' =
                     [active_connections EXCEPT ![wsDoc[c]] = "-"]
         ]_vars
    /\ \A c \in Subscribers :
         TerminalSent(c) ~>
             (subState[c] = "closed" /\
              \A d \in Docs : active_connections[d] # c)

====
